---- MODULE Spec2Model ----
(***************************************************************************)
(* A model of CodePolyglot's static code analyzer                          *)
(* (src/CodePolyglot/src/core/analyzer.py).                                *)
(*                                                                         *)
(* A source text is a sequence of one-character strings.  The outcome of   *)
(* the standard library's ast.parse on that text is an input of the model: *)
(* either a failure or a syntax tree, given as a sequence of nodes, each   *)
(* with its kind and the index of its parent (0 is the Module root).       *)
(***************************************************************************)
EXTENDS Integers, Sequences, FiniteSets, TLC

VARIABLES
    code,       \* the source text handed to analyze_code
    language,   \* the language tag handed to analyze_code
    parsed,     \* what ast.parse(code) gives when the python path asks for it
    pc,         \* "call" before analyze_code has run, "done" after it
    result,     \* the dictionary analyze_code returned (NoResult before)
    raised,     \* TRUE when an exception left analyze_code
    heap,       \* the list objects allocated so far; a reference is an index
    thr,        \* per thread: the analyze_code call it is in, and how far
    returned,   \* the calls that have returned, in the order of their return
    mutations,  \* how often a caller has changed a list of a returned result
    tasks,      \* AnalysisTask.tasks: the task records, by task id
    task_id_counter,  \* AnalysisTask.task_id_counter
    lock,       \* the id of the task whose create_task holds the lock, else 0
    worker,     \* the threads started for the tasks, by task id
    config_language,  \* polyglot.config['language'] of the one CodePolyglot
    quick,      \* the quick-analyze requests, in the order of their arrival
    response    \* what the last get_task_status request answered

callVars == <<code, language, parsed, pc, result, raised>>
heapVars == <<heap, thr, returned, mutations>>
appVars == <<tasks, task_id_counter, lock, worker, config_language, quick, response>>
vars == <<code, language, parsed, pc, result, raised, heap, thr, returned, mutations,
          tasks, task_id_counter, lock, worker, config_language, quick, response>>

----------------------------------------------------------------------------
(* Characters and the str methods the analyzer uses.                       *)

\* Characters str.strip() removes (the ASCII ones).
Whitespace == {" ", "\t", "\n", "\r", "\f"}

\* Characters at which str.splitlines() ends a line.  Python also splits at
\* the vertical tab, the file, group and record separators, NEL and the
\* Unicode line and paragraph separators; the form feed stands for all of
\* the boundaries that are not LF, CR or CR LF.
LineBoundaries == {"\n", "\r", "\f"}

\* The positions at which a line boundary of s begins; the LF of a CR LF
\* pair belongs to the boundary its CR began.
LineEnds(s) ==
    {i \in 1..Len(s) :
        /\ s[i] \in LineBoundaries
        /\ ~(s[i] = "\n" /\ i > 1 /\ s[i - 1] = "\r")}

\* The position after the boundary that begins at i.
AfterEnd(s, i) ==
    IF s[i] = "\r" /\ i < Len(s) /\ s[i + 1] = "\n" THEN i + 2 ELSE i + 1

\* The lines of s, each without its boundary, and what follows the last
\* boundary when that is not empty.
LinesOf(s) ==
    LET ends == LineEnds(s)
        m == Cardinality(ends)
        end(j) == CHOOSE i \in ends : Cardinality({u \in ends : u <= i}) = j
        start(j) == IF j = 1 THEN 1 ELSE AfterEnd(s, end(j - 1))
        closed == [j \in 1..m |-> SubSeq(s, start(j), end(j) - 1)]
    IN  IF start(m + 1) <= Len(s)
        THEN Append(closed, SubSeq(s, start(m + 1), Len(s)))
        ELSE closed

\* A slip: s.split('\n') in place of s.splitlines(), which gives one empty
\* line for the empty text and one more line after a final newline.
SplitOnNewline(s) ==
    IF s = <<>> \/ s[Len(s)] \in LineBoundaries
    THEN Append(LinesOf(s), <<>>)
    ELSE LinesOf(s)

\* str.splitlines(): the lines of s without their line boundaries; a text
\* that ends in a boundary has no empty last line.
SplitLines(s) == LinesOf(s)

RECURSIVE LStrip(_)
LStrip(s) ==
    IF s # <<>> /\ Head(s) \in Whitespace THEN LStrip(Tail(s)) ELSE s

RECURSIVE RStrip(_)
RStrip(s) ==
    IF s # <<>> /\ s[Len(s)] \in Whitespace
    THEN RStrip(SubSeq(s, 1, Len(s) - 1))
    ELSE s

\* A slip: str.lstrip() in place of str.strip().
StripLeft(s) == LStrip(s)

\* str.strip()
Strip(s) == RStrip(LStrip(s))

\* str.startswith(p)
StartsWith(s, p) == Len(s) >= Len(p) /\ SubSeq(s, 1, Len(p)) = p

\* str.startswith((p1, p2, ...))
StartsWithAny(s, ps) == \E p \in ps : StartsWith(s, p)

\* str.find(p): the 0-based index of the first occurrence of p, -1 if none.
Find(s, p) ==
    LET hits == {i \in 1..(Len(s) - Len(p) + 1) : SubSeq(s, i, i + Len(p) - 1) = p}
    IN  IF hits = {} THEN -1
        ELSE (CHOOSE i \in hits : \A j \in hits : i <= j) - 1

\* p in s
Contains(s, p) == Find(s, p) >= 0

\* s[a:b] and s[a:] with 0-based indices, 0 <= a.
Slice(s, a, b) == SubSeq(s, a + 1, b)
SliceFrom(s, a) == SubSeq(s, a + 1, Len(s))

RECURSIVE RemoveChar(_, _)
\* s.replace(c, '') for a one-character c
RemoveChar(s, c) ==
    IF s = <<>> THEN <<>>
    ELSE IF Head(s) = c THEN RemoveChar(Tail(s), c)
         ELSE <<Head(s)>> \o RemoveChar(Tail(s), c)

RECURSIVE Join(_)
\* ' '.join(parts)
Join(parts) ==
    IF parts = <<>> THEN <<>>
    ELSE IF Len(parts) = 1 THEN parts[1]
         ELSE parts[1] \o <<" ">> \o Join(Tail(parts))

\* n copies of the character c ('#' * 70)
Repeat(c, n) == [i \in 1..n |-> c]

----------------------------------------------------------------------------
(* Python numbers: the quotient a / b of two non-negative ints, kept as    *)
(* the fraction <<numerator, denominator>> in lowest terms.                *)

RECURSIVE GCD(_, _)
GCD(a, b) == IF b = 0 THEN a ELSE GCD(b, a % b)

Zero == <<0, 1>>

TrueDiv(a, b) == IF a = 0 THEN Zero ELSE <<a \div GCD(a, b), b \div GCD(a, b)>>

\* A slip: the operands of the division exchanged.
CommentRatioSwapped(comment_lines, lines_of_code) ==
    IF comment_lines > 0 THEN TrueDiv(lines_of_code, comment_lines) ELSE Zero

\* comment_lines / result.lines_of_code if result.lines_of_code > 0 else 0
CommentRatio(comment_lines, lines_of_code) ==
    IF lines_of_code > 0 THEN TrueDiv(comment_lines, lines_of_code) ELSE Zero

----------------------------------------------------------------------------
(* AnalysisResult and the generic fallback.                                *)

ResultFields ==
    {"lines_of_code", "comment_lines", "function_count", "class_count",
     "cyclomatic_complexity", "comment_ratio", "imports", "functions",
     "classes", "comments"}

\* A slip: the complexity field starting from 1 instead of 0.
AnalysisResultFromOne ==
    [lines_of_code |-> 0, comment_lines |-> 0, function_count |-> 0,
     class_count |-> 0, cyclomatic_complexity |-> 1, comment_ratio |-> Zero,
     imports |-> <<>>, functions |-> <<>>, classes |-> <<>>, comments |-> <<>>]

\* AnalysisResult(): the field defaults, the four lists set by __post_init__.
AnalysisResult ==
    [lines_of_code |-> 0, comment_lines |-> 0, function_count |-> 0,
     class_count |-> 0, cyclomatic_complexity |-> 0, comment_ratio |-> Zero,
     imports |-> <<>>, functions |-> <<>>, classes |-> <<>>, comments |-> <<>>]

GenericMarkers == {<<"/", "/">>, <<"#">>, <<"/", "*">>, <<"*">>}

RECURSIVE CountGeneric(_)
\* sum(1 for line in lines if line.strip().startswith(('//', '#', '/*', '*')))
CountGeneric(lines) ==
    IF lines = <<>> THEN 0
    ELSE (IF StartsWithAny(Strip(Head(lines)), GenericMarkers) THEN 1 ELSE 0)
         + CountGeneric(Tail(lines))

AnalyzeGeneric(src) ==
    LET lines == SplitLines(src)
        comment_lines == CountGeneric(lines)
    IN  [AnalysisResult EXCEPT
            !.lines_of_code = Len(lines),
            !.comment_lines = comment_lines,
            !.comment_ratio = CommentRatio(comment_lines, Len(lines))]

----------------------------------------------------------------------------
(* Regular expressions (the re module), as far as the patterns of the      *)
(* lexical paths need them.  A pattern is a tree; Ends gives the positions *)
(* at which a match starting at position i can end, in the order in which  *)
(* the backtracking matcher tries them (first alternative first, greedy    *)
(* repetition longest first), so its first element is the match re finds.  *)

OneOf(cs) == [t |-> "set", cs |-> cs]
NoneOf(cs) == [t |-> "not", cs |-> cs]
Lit(str) == [t |-> "lit", str |-> str]
Cat(rs) == [t |-> "seq", rs |-> rs]
Alt(rs) == [t |-> "alt", rs |-> rs]
Star(r) == [t |-> "star", r |-> r]
Opt(r) == [t |-> "opt", r |-> r]
Plus(r) == Cat(<<r, Star(r)>>)

RECURSIVE Ends(_, _, _)
RECURSIVE ThenAll(_, _, _)
RECURSIVE EndsSeq(_, _, _, _)
RECURSIVE EndsAlt(_, _, _, _)
RECURSIVE EndsStar(_, _, _, _)

\* The ends of r started at each position of starts, in order.
ThenAll(starts, r, s) ==
    IF starts = <<>> THEN <<>>
    ELSE Ends(r, s, Head(starts)) \o ThenAll(Tail(starts), r, s)

EndsSeq(rs, k, s, starts) ==
    IF k > Len(rs) THEN starts
    ELSE EndsSeq(rs, k + 1, s, ThenAll(starts, rs[k], s))

EndsAlt(rs, k, s, i) ==
    IF k > Len(rs) THEN <<>>
    ELSE Ends(rs[k], s, i) \o EndsAlt(rs, k + 1, s, i)

\* es: the ends of one more repetition of r from i.
EndsStar(r, es, s, i) ==
    IF es = <<>> THEN <<i>>
    ELSE (IF Head(es) > i THEN Ends(Star(r), s, Head(es)) ELSE <<>>)
         \o EndsStar(r, Tail(es), s, i)

Ends(r, s, i) ==
    CASE r.t = "set" -> IF i <= Len(s) /\ s[i] \in r.cs THEN <<i + 1>> ELSE <<>>
      [] r.t = "not" -> IF i <= Len(s) /\ s[i] \notin r.cs THEN <<i + 1>> ELSE <<>>
      [] r.t = "lit" -> IF i + Len(r.str) - 1 <= Len(s) /\ SubSeq(s, i, i + Len(r.str) - 1) = r.str
                        THEN <<i + Len(r.str)>> ELSE <<>>
      [] r.t = "seq" -> EndsSeq(r.rs, 1, s, <<i>>)
      [] r.t = "alt" -> EndsAlt(r.rs, 1, s, i)
      [] r.t = "star" -> EndsStar(r.r, Ends(r.r, s, i), s, i)
      [] r.t = "opt" -> Ends(r.r, s, i) \o <<i>>

RECURSIVE CountFrom(_, _, _)
\* The matches of r in s found from position pos on: the search goes to the
\* first position at which r matches and resumes where that match ends,
\* one further on after an empty match.
CountFrom(r, s, pos) ==
    LET starts == {p \in pos..(Len(s) + 1) : Ends(r, s, p) # <<>>}
    IN  IF starts = {} THEN 0
        ELSE LET p == CHOOSE q \in starts : \A o \in starts : q <= o
                 e == Head(Ends(r, s, p))
             IN  1 + CountFrom(r, s, IF e > p THEN e ELSE p + 1)

\* len(re.findall(r, s)): the number of non-overlapping matches of r in s,
\* found left to right.
FindAllCount(r, s) == CountFrom(r, s, 1)

Letters ==
    {"a", "b", "c", "d", "e", "f", "g", "h", "i", "j", "k", "l", "m", "n",
     "o", "p", "q", "r", "s", "t", "u", "v", "w", "x", "y", "z"}
Capitals ==
    {"A", "B", "C", "D", "E", "F", "G", "H", "I", "J", "K", "L", "M", "N",
     "O", "P", "Q", "R", "S", "T", "U", "V", "W", "X", "Y", "Z"}
Digits == {"0", "1", "2", "3", "4", "5", "6", "7", "8", "9"}

\* \w and \s (the ASCII ones)
WordChars == Letters \cup Capitals \cup Digits \cup {"_"}
W == OneOf(WordChars)
S == OneOf(Whitespace)

Kw_public == <<"p", "u", "b", "l", "i", "c">>
Kw_private == <<"p", "r", "i", "v", "a", "t", "e">>
Kw_protected == <<"p", "r", "o", "t", "e", "c", "t", "e", "d">>
Kw_class == <<"c", "l", "a", "s", "s">>
Kw_interface == <<"i", "n", "t", "e", "r", "f", "a", "c", "e">>
Kw_enum == <<"e", "n", "u", "m">>
Kw_function == <<"f", "u", "n", "c", "t", "i", "o", "n">>
Kw_const == <<"c", "o", "n", "s", "t">>

Visibility == Alt(<<Lit(Kw_public), Lit(Kw_private), Lit(Kw_protected)>>)

\* \([^)]*\)
ParamList == Cat(<<Lit(<<"(">>), Star(NoneOf({")"})), Lit(<<")">>)>>)

\* (public|private|protected)\s+\w+\s+\w+\s*\([^)]*\)\s*\{
JavaFunctionPattern ==
    Cat(<<Visibility, Plus(S), Plus(W), Plus(S), Plus(W), Star(S), ParamList,
          Star(S), Lit(<<"{">>)>>)

\* (public|private|protected)?\s*(class|interface|enum)\s+\w+
JavaClassPattern ==
    Cat(<<Opt(Visibility), Star(S),
          Alt(<<Lit(Kw_class), Lit(Kw_interface), Lit(Kw_enum)>>),
          Plus(S), Plus(W)>>)

\* function\s+\w+\s*\([^)]*\)\s*\{
JsFunctionDecl ==
    Cat(<<Lit(Kw_function), Plus(S), Plus(W), Star(S), ParamList, Star(S),
          Lit(<<"{">>)>>)

\* (function\s+\w+|const\s+\w+\s*=\s*\([^)]*\)\s*=>|\w+\s*\([^)]*\)\s*\{)
JsFunctionPattern ==
    Alt(<<Cat(<<Lit(Kw_function), Plus(S), Plus(W)>>),
          Cat(<<Lit(Kw_const), Plus(S), Plus(W), Star(S), Lit(<<"=">>), Star(S),
                ParamList, Star(S), Lit(<<"=", ">">>)>>),
          Cat(<<Plus(W), Star(S), ParamList, Star(S), Lit(<<"{">>)>>)>>)

\* (class\s+\w+|function\s+\w+\s*\([^)]*\)\s*\{)
JsClassPattern ==
    Alt(<<Cat(<<Lit(Kw_class), Plus(S), Plus(W)>>), JsFunctionDecl>>)

----------------------------------------------------------------------------
(* The lexical scanners of the java and javascript paths.                  *)

SlashSlash == <<"/", "/">>
BlockStart == <<"/", "*">>
BlockEnd == <<"*", "/">>

\* A slip: target.insert(0, comment_text), the newest entry first.
PrependIfText(target, comment_text) ==
    IF comment_text # <<>> THEN <<comment_text>> \o target ELSE target

\* if comment_text: target.append(comment_text)
AppendIfText(target, comment_text) ==
    IF comment_text # <<>> THEN Append(target, comment_text) ELSE target

\* The locals of _analyze_java before its loop.
JavaStart ==
    [in_block_comment |-> FALSE, block_comment_content |-> <<>>,
     comment_lines |-> 0, comments |-> <<>>]

\* One pass of the loop body of _analyze_java.
JavaLine(st, line) ==
    LET stripped == Strip(line)
    IN  IF st.in_block_comment
        THEN IF Contains(line, BlockEnd)
             THEN LET content == AppendIfText(st.block_comment_content,
                                     Strip(Slice(line, 0, Find(line, BlockEnd))))
                  IN  [in_block_comment |-> FALSE,
                       block_comment_content |-> <<>>,
                       comment_lines |-> st.comment_lines + 1,
                       comments |-> IF content # <<>>
                                    THEN Append(st.comments, Join(content))
                                    ELSE st.comments]
             ELSE [st EXCEPT
                     !.block_comment_content =
                         AppendIfText(@, Strip(RemoveChar(line, "*"))),
                     !.comment_lines = @ + 1]
        ELSE IF StartsWith(stripped, SlashSlash)
        THEN [st EXCEPT
                !.comment_lines = @ + 1,
                !.comments = AppendIfText(@, Strip(SliceFrom(stripped, 2)))]
        ELSE IF StartsWith(stripped, BlockStart)
        THEN LET start_idx == Find(stripped, BlockStart) + 2
             IN  IF Contains(stripped, BlockEnd)
                 THEN [st EXCEPT
                         !.in_block_comment = FALSE,
                         !.comment_lines = @ + 1,
                         !.comments = AppendIfText(@,
                             Strip(Slice(stripped, start_idx, Find(stripped, BlockEnd))))]
                 ELSE [st EXCEPT
                         !.in_block_comment = TRUE,
                         !.comment_lines = @ + 1,
                         !.block_comment_content =
                             AppendIfText(@, Strip(SliceFrom(stripped, start_idx)))]
        ELSE st

RECURSIVE JavaScan(_, _)
\* for line in lines: ... of _analyze_java
JavaScan(st, lines) ==
    IF lines = <<>> THEN st ELSE JavaScan(JavaLine(st, Head(lines)), Tail(lines))

\* The body of the try block of _analyze_java.
AnalyzeJavaBody(src) ==
    LET lines == SplitLines(src)
        st == JavaScan(JavaStart, lines)
    IN  [AnalysisResult EXCEPT
            !.lines_of_code = Len(lines),
            !.function_count = FindAllCount(JavaFunctionPattern, src),
            !.class_count = FindAllCount(JavaClassPattern, src),
            !.comment_lines = st.comment_lines,
            !.comment_ratio = CommentRatio(st.comment_lines, Len(lines)),
            !.comments = st.comments]

\* The locals of _analyze_javascript before its loop.
JsStart == [in_block_comment |-> FALSE, comment_lines |-> 0, comments |-> <<>>]

\* A slip: comment_lines += 1 indented one level too deep, so that only the
\* closing line of a block comment is counted.
JsLineCountClosing(st, line) ==
    LET stripped == Strip(line)
    IN  IF st.in_block_comment
        THEN IF Contains(line, BlockEnd)
             THEN [in_block_comment |-> FALSE,
                   comment_lines |-> st.comment_lines + 1,
                   comments |-> AppendIfText(st.comments,
                                    Strip(Slice(line, 0, Find(line, BlockEnd))))]
             ELSE st
        ELSE IF StartsWith(stripped, SlashSlash)
        THEN [st EXCEPT
                !.comment_lines = @ + 1,
                !.comments = AppendIfText(@, Strip(SliceFrom(stripped, 2)))]
        ELSE IF StartsWith(stripped, BlockStart)
        THEN LET start_idx == Find(stripped, BlockStart) + 2
             IN  IF Contains(stripped, BlockEnd)
                 THEN [st EXCEPT
                         !.in_block_comment = FALSE,
                         !.comment_lines = @ + 1,
                         !.comments = AppendIfText(@,
                             Strip(Slice(stripped, start_idx, Find(stripped, BlockEnd))))]
                 ELSE [st EXCEPT
                         !.in_block_comment = TRUE,
                         !.comment_lines = @ + 1,
                         !.comments = AppendIfText(@, Strip(SliceFrom(stripped, start_idx)))]
        ELSE st

\* One pass of the loop body of _analyze_javascript.
JsLine(st, line) ==
    LET stripped == Strip(line)
    IN  IF st.in_block_comment
        THEN IF Contains(line, BlockEnd)
             THEN [in_block_comment |-> FALSE,
                   comment_lines |-> st.comment_lines + 1,
                   comments |-> AppendIfText(st.comments,
                                    Strip(Slice(line, 0, Find(line, BlockEnd))))]
             ELSE [st EXCEPT !.comment_lines = @ + 1]
        ELSE IF StartsWith(stripped, SlashSlash)
        THEN [st EXCEPT
                !.comment_lines = @ + 1,
                !.comments = AppendIfText(@, Strip(SliceFrom(stripped, 2)))]
        ELSE IF StartsWith(stripped, BlockStart)
        THEN LET start_idx == Find(stripped, BlockStart) + 2
             IN  IF Contains(stripped, BlockEnd)
                 THEN [st EXCEPT
                         !.in_block_comment = FALSE,
                         !.comment_lines = @ + 1,
                         !.comments = AppendIfText(@,
                             Strip(Slice(stripped, start_idx, Find(stripped, BlockEnd))))]
                 ELSE [st EXCEPT
                         !.in_block_comment = TRUE,
                         !.comment_lines = @ + 1,
                         !.comments = AppendIfText(@, Strip(SliceFrom(stripped, start_idx)))]
        ELSE st

RECURSIVE JsScan(_, _)
\* for line in lines: ... of _analyze_javascript
JsScan(st, lines) ==
    IF lines = <<>> THEN st ELSE JsScan(JsLine(st, Head(lines)), Tail(lines))

\* A slip: one unit of complexity for a text in which a function was found.
AnalyzeJavascriptComplexity(src) ==
    LET lines == SplitLines(src)
        st == JsScan(JsStart, lines)
        function_count == FindAllCount(JsFunctionPattern, src)
    IN  [AnalysisResult EXCEPT
            !.lines_of_code = Len(lines),
            !.function_count = function_count,
            !.class_count = FindAllCount(JsClassPattern, src),
            !.cyclomatic_complexity = IF function_count > 0 THEN 1 ELSE 0,
            !.comment_lines = st.comment_lines,
            !.comment_ratio = CommentRatio(st.comment_lines, Len(lines)),
            !.comments = st.comments]

\* _analyze_javascript(code)

AnalyzeJavascript(src) ==
    LET lines == SplitLines(src)
        st == JsScan(JsStart, lines)
    IN  [AnalysisResult EXCEPT
            !.lines_of_code = Len(lines),
            !.function_count = FindAllCount(JsFunctionPattern, src),
            !.class_count = FindAllCount(JsClassPattern, src),
            !.comment_lines = st.comment_lines,
            !.comment_ratio = CommentRatio(st.comment_lines, Len(lines)),
            !.comments = st.comments]

----------------------------------------------------------------------------
(* Syntax trees (the ast module).  nodes[i].parent < i; the children of a  *)
(* node are the nodes naming it as parent, in index order.                 *)

\* The node classes _calculate_cyclomatic_complexity tests for in its first
\* isinstance call.
BranchKinds ==
    {"If", "While", "For", "AsyncFor", "AsyncWith", "Try", "ExceptHandler",
     "Assert", "BoolOp"}

\* Every node class the analyzer tells apart; "Other" is any other class.
NodeKinds ==
    BranchKinds \cup
    {"comprehension", "FunctionDef", "AsyncFunctionDef", "ClassDef", "Import",
     "ImportFrom", "Other"}

\* The value None of ImportFrom.module ("from . import n").
PyNone == <<"None">>

KindOf(nodes, n) == IF n = 0 THEN "Module" ELSE nodes[n].kind

RECURSIVE ChildrenFrom(_, _, _)
ChildrenFrom(nodes, n, i) ==
    IF i > Len(nodes) THEN <<>>
    ELSE (IF nodes[i].parent = n THEN <<i>> ELSE <<>>) \o ChildrenFrom(nodes, n, i + 1)

\* ast.iter_child_nodes(n)
Children(nodes, n) == ChildrenFrom(nodes, n, 1)

RECURSIVE WalkQueue(_, _)
WalkQueue(nodes, todo) ==
    IF todo = <<>> THEN <<>>
    ELSE <<Head(todo)>> \o WalkQueue(nodes, Tail(todo) \o Children(nodes, Head(todo)))

\* ast.walk(n): n and its descendants, breadth first.
Walk(nodes, n) == WalkQueue(nodes, <<n>>)

RECURSIVE CountBranchesNoElif(_, _)
\* A slip: the elif branch for ast.comprehension left out.
CountBranchesNoElif(nodes, walk) ==
    IF walk = <<>> THEN 0
    ELSE (IF KindOf(nodes, Head(walk)) \in BranchKinds THEN 1 ELSE 0)
         + CountBranchesNoElif(nodes, Tail(walk))

RECURSIVE CountBranches(_, _)
CountBranches(nodes, walk) ==
    IF walk = <<>> THEN 0
    ELSE (IF KindOf(nodes, Head(walk)) \in BranchKinds THEN 1
          ELSE IF KindOf(nodes, Head(walk)) = "comprehension" THEN 1
          ELSE 0)
         + CountBranches(nodes, Tail(walk))

RECURSIVE WalkOwnBody(_, _, _)
\* A walk from root that does not enter the functions defined inside it.
WalkOwnBody(nodes, root, todo) ==
    IF todo = <<>> THEN <<>>
    ELSE LET h == Head(todo)
             below == IF h # root /\ KindOf(nodes, h) \in {"FunctionDef", "AsyncFunctionDef"}
                      THEN <<>> ELSE Children(nodes, h)
         IN  <<h>> \o WalkOwnBody(nodes, root, Tail(todo) \o below)

\* A slip: the branches of nested functions left to those functions.
ComplexityOfOwnBody(nodes, n) ==
    1 + CountBranches(nodes, WalkOwnBody(nodes, n, <<n>>))

\* _calculate_cyclomatic_complexity(node)
CalculateCyclomaticComplexity(nodes, n) == 1 + CountBranches(nodes, Walk(nodes, n))

Max(a, b) == IF a >= b THEN a ELSE b

RECURSIVE CountKind(_, _, _)
\* len([n for n in body if isinstance(n, kind)])
CountKind(nodes, ids, kind) ==
    IF ids = <<>> THEN 0
    ELSE (IF nodes[Head(ids)].kind = kind THEN 1 ELSE 0)
         + CountKind(nodes, Tail(ids), kind)

\* The dictionary appended to result.functions.
FunctionEntry(nodes, n, func_complexity) ==
    [name |-> nodes[n].name, line |-> nodes[n].lineno,
     complexity |-> func_complexity, args |-> nodes[n].nargs]

\* The dictionary appended to result.classes.
ClassEntry(nodes, n) ==
    [name |-> nodes[n].name, line |-> nodes[n].lineno,
     methods |-> CountKind(nodes, Children(nodes, n), "FunctionDef")]

\* A slip: the complexity of the function seen last, not the maximum.
RunningLast(cyclomatic_complexity, func_complexity) == func_complexity

\* max(result.cyclomatic_complexity, func_complexity)
RunningMax(cyclomatic_complexity, func_complexity) ==
    Max(cyclomatic_complexity, func_complexity)

\* A slip: node.module used as it is, None formatted into the string.
ImportNamesNoDefault(node) ==
    IF node.kind = "Import" THEN node.names
    ELSE LET module == IF node.module = PyNone THEN <<"N", "o", "n", "e">>
                       ELSE node.module
         IN  [i \in 1..Len(node.names) |-> module \o <<".">> \o node.names[i]]

\* [alias.name for alias in node.names] and
\* [f"{module}.{alias.name}" for alias in node.names]
ImportNames(node) ==
    IF node.kind = "Import" THEN node.names
    ELSE LET module == IF node.module = PyNone THEN <<>> ELSE node.module
         IN  [i \in 1..Len(node.names) |-> module \o <<".">> \o node.names[i]]

\* One pass of the loop over ast.walk(tree) in _analyze_python.
PyNode(res, nodes, n) ==
    LET kind == KindOf(nodes, n)
    IN  IF kind = "FunctionDef"
        THEN LET func_complexity == CalculateCyclomaticComplexity(nodes, n)
             IN  [res EXCEPT
                    !.function_count = @ + 1,
                    !.cyclomatic_complexity = RunningMax(@, func_complexity),
                    !.functions = Append(@, FunctionEntry(nodes, n, func_complexity))]
        ELSE IF kind = "ClassDef"
        THEN [res EXCEPT
                !.class_count = @ + 1,
                !.classes = Append(@, ClassEntry(nodes, n))]
        ELSE IF kind \in {"Import", "ImportFrom"}
        THEN [res EXCEPT !.imports = @ \o ImportNames(nodes[n])]
        ELSE res

RECURSIVE PyWalk(_, _, _)
\* for node in ast.walk(tree): ...
PyWalk(res, nodes, walk) ==
    IF walk = <<>> THEN res
    ELSE PyWalk(PyNode(res, nodes, Head(walk)), nodes, Tail(walk))

\* The width of a separator line: '#' * 70
SeparatorWidth == 70

\* The locals comment_lines and comments of _analyze_python.
PyStart == [comment_lines |-> 0, comments |-> <<>>]

\* A slip: the test for a separator line left out.
PyLineNoSeparator(st, line) ==
    LET line_stripped == Strip(line)
    IN  IF StartsWith(line_stripped, <<"#">>)
        THEN [comment_lines |-> st.comment_lines + 1,
              comments |-> AppendIfText(st.comments, Strip(SliceFrom(line_stripped, 1)))]
        ELSE st

\* One pass of the loop over the lines in _analyze_python.
PyLine(st, line) ==
    LET line_stripped == Strip(line)
    IN  IF StartsWith(line_stripped, <<"#">>)
           /\ ~StartsWith(line_stripped, Repeat("#", SeparatorWidth))
        THEN [comment_lines |-> st.comment_lines + 1,
              comments |-> AppendIfText(st.comments, Strip(SliceFrom(line_stripped, 1)))]
        ELSE st

RECURSIVE PyScan(_, _)
PyScan(st, lines) ==
    IF lines = <<>> THEN st ELSE PyScan(PyLine(st, Head(lines)), Tail(lines))

\* The try block of _analyze_python once ast.parse has given a tree.
AnalyzePythonBody(src, nodes) ==
    LET lines == SplitLines(src)
        walked == PyWalk([AnalysisResult EXCEPT !.lines_of_code = Len(lines)],
                         nodes, Walk(nodes, 0))
        st == PyScan(PyStart, lines)
    IN  [walked EXCEPT
            !.comment_lines = st.comment_lines,
            !.comment_ratio = CommentRatio(st.comment_lines, walked.lines_of_code),
            !.comments = st.comments]

----------------------------------------------------------------------------
(* Calls: what a method gives its caller is a return value or an exception. *)

NoResult == [missing |-> TRUE]
Returned(r) == [raised |-> FALSE, value |-> r]
Raised == [raised |-> TRUE, value |-> NoResult]

\* tree = ast.parse(code): SyntaxError, ValueError, RecursionError and
\* MemoryError are all subclasses of Exception.
ParseFailure == [ok |-> FALSE, nodes |-> <<>>]
ParseTree(nodes) == [ok |-> TRUE, nodes |-> nodes]

\* A slip: no except clause, the exception leaves the method.
OnExceptionPropagate(outcome, src) == outcome

\* A slip: the handler returns the half-filled result instead of analysing
\* the text again.
OnExceptionEmptyResult(outcome, src) ==
    IF outcome.raised THEN Returned(AnalysisResult) ELSE outcome

\* except Exception as e: return self._analyze_generic(code)
OnException(outcome, src) ==
    IF outcome.raised THEN Returned(AnalyzeGeneric(src)) ELSE outcome

AnalyzePython(src, p) ==
    OnException(IF p.ok THEN Returned(AnalyzePythonBody(src, p.nodes)) ELSE Raised,
                src)

AnalyzeJava(src) == OnException(Returned(AnalyzeJavaBody(src)), src)

\* A slip: the C-like language cpp sent to the lexical scanner.
DispatchCLike(src, lang, p) ==
    IF lang = "python" THEN AnalyzePython(src, p)
    ELSE IF lang = "java" THEN AnalyzeJava(src)
    ELSE IF lang \in {"javascript", "cpp"} THEN Returned(AnalyzeJavascript(src))
    ELSE Returned(AnalyzeGeneric(src))

\* analyze_code(code, language)
Dispatch(src, lang, p) ==
    IF lang = "python" THEN AnalyzePython(src, p)
    ELSE IF lang = "java" THEN AnalyzeJava(src)
    ELSE IF lang = "javascript" THEN Returned(AnalyzeJavascript(src))
    ELSE Returned(AnalyzeGeneric(src))

----------------------------------------------------------------------------
(* Inputs.                                                                 *)

\* The most text fragments of a source text, and the most nodes of a tree.
MaxTokens == 3
MaxNodes == 3

\* The tags _detect_language gives, and the three that have their own path.
Languages == {"python", "java", "javascript", "cpp", "go", "unknown"}

Tokens ==
    {<<"#">>, <<"/", "/">>, <<"/", "*">>, <<"*", "/">>, <<"*">>, <<"a">>,
     <<" ">>, <<"\n">>, <<"\f">>}

RECURSIVE Concat(_)
\* The text made of the fragments parts, in order.
Concat(parts) == IF parts = <<>> THEN <<>> ELSE Head(parts) \o Concat(Tail(parts))

\* code is a text of at most n of the fragments toks.
TextInput(toks, n) ==
    \E k \in 0..n : \E parts \in [1..k -> toks] : code = Concat(parts)

Identifiers == <<<<"f">>, <<"g">>, <<"h">>, <<"k">>, <<"m">>, <<"n">>>>

\* The node of class kind at index i under parent.
MkNode(kind, parent, i) ==
    [kind |-> kind, parent |-> parent, lineno |-> i,
     name |-> Identifiers[((i - 1) % Len(Identifiers)) + 1],
     nargs |-> i % 2,
     module |-> IF i % 2 = 1 THEN PyNone ELSE <<"m">>,
     names |-> IF kind = "Import" THEN <<<<"a">>, <<"b">>>> ELSE <<<<"n">>>>]

\* The kinds the nodes of one input tree are drawn from.
Palettes ==
    {{"FunctionDef", "If", "For", "Other"},
     {"FunctionDef", "While", "AsyncFor", "AsyncWith"},
     {"FunctionDef", "Try", "ExceptHandler", "Assert"},
     {"FunctionDef", "BoolOp", "comprehension", "ClassDef"},
     {"FunctionDef", "AsyncFunctionDef", "Import", "ImportFrom"}}

\* parsed is a tree of at most n nodes, each below a node before it.
TreeInput(n) ==
    \E k \in 0..n : \E pal \in Palettes :
        \E ks \in [1..k -> pal] : \E ps \in [1..k -> 0..(k - 1)] :
            /\ \A i \in 1..k : ps[i] < i
            /\ parsed = ParseTree([i \in 1..k |-> MkNode(ks[i], ps[i], i)])

\* A text of blank lines and comments only: ast.parse gives an empty Module.
RECURSIVE AllBlank(_)
AllBlank(lines) ==
    lines = <<>>
    \/ /\ LET l == Strip(Head(lines)) IN l = <<>> \/ Head(l) = "#"
       /\ AllBlank(Tail(lines))

\* parsed is what ast.parse can give for the text src: an empty Module for
\* a text without statements, else a failure or a tree of at most n nodes.
ParseInput(src, n) ==
    IF AllBlank(SplitLines(src)) THEN parsed = ParseTree(<<>>)
    ELSE parsed = ParseFailure \/ TreeInput(n)

----------------------------------------------------------------------------
(* The state machine: one call of analyze_code.                            *)

\* The threads that call analyze_code on the one CodeAnalyzer.
Threads == {1, 2}

Idle == [pc |-> "idle"]

InitHeap ==
    /\ heap = <<>>
    /\ thr = [t \in Threads |-> Idle]
    /\ returned = <<>>
    /\ mutations = 0

\* None where the web application keeps a string or a time.
None == "None"

\* The web application after import: no task, no request, no response to
\* a request for a task's status, and the language that _load_config puts
\* into the configuration.
InitApp ==
    /\ tasks = <<>>
    /\ task_id_counter = 0
    /\ lock = 0
    /\ worker = <<>>
    /\ config_language = "en"
    /\ quick = <<>>
    /\ response = [unanswered |-> TRUE]

InitCall ==
    /\ pc = "call"
    /\ result = NoResult
    /\ raised = FALSE
    /\ InitHeap
    /\ InitApp

\* Every text over Tokens with every language tag; on the python path the
\* parser fails or gives a tree of at most one node.
Init ==
    /\ TextInput(Tokens, MaxTokens)
    /\ language \in Languages
    /\ IF language = "python" THEN ParseInput(code, 1) ELSE parsed = ParseFailure
    /\ InitCall

AnalyzeCode ==
    /\ pc = "call"
    /\ LET outcome == Dispatch(code, language, parsed)
       IN  /\ result' = outcome.value
           /\ raised' = outcome.raised
    /\ pc' = "done"
    /\ UNCHANGED <<code, language, parsed>>
    /\ UNCHANGED heapVars
    /\ UNCHANGED appVars

Next == AnalyzeCode

Spec == Init /\ [][Next]_vars

\* The python path over every tree of at most MaxNodes nodes.
TreeTexts == {<<"a">>, <<"a", "\n", "#", "a">>}

InitTree ==
    /\ code \in TreeTexts
    /\ language = "python"
    /\ ParseInput(code, MaxNodes)
    /\ InitCall

SpecTree == InitTree /\ [][Next]_vars

----------------------------------------------------------------------------
(* Concurrent calls.  The web application runs each task in a thread of    *)
(* its own, and all of them call analyze_code on the CodeAnalyzer of the   *)
(* one global CodePolyglot.  A result holds references to its four lists;  *)
(* heap maps a reference to the list's present content.                    *)

ListFields == {"imports", "functions", "classes", "comments"}

\* The most calls of analyze_code when the callers leave the results alone;
\* the most calls, and the most changes the callers make to the lists of
\* the results they hold, when they do not.
MaxCalls == 3
MaxSharedCalls == 2
MaxMutations == 1

\* A slip: one module-level empty list per field, shared by every record.
PostInitShared(h) ==
    IF Len(h) >= 4
    THEN [heap |-> h,
          refs |-> [imports |-> 1, functions |-> 2, classes |-> 3, comments |-> 4]]
    ELSE [heap |-> h \o <<<<>>, <<>>, <<>>, <<>>>>,
          refs |-> [imports |-> Len(h) + 1, functions |-> Len(h) + 2,
                    classes |-> Len(h) + 3, comments |-> Len(h) + 4]]

\* AnalysisResult.__post_init__: a new empty list for each of the four
\* fields left None.
PostInit(h) ==
    [heap |-> h \o <<<<>>, <<>>, <<>>, <<>>>>,
     refs |-> [imports |-> Len(h) + 1, functions |-> Len(h) + 2,
               classes |-> Len(h) + 3, comments |-> Len(h) + 4]]

\* The dictionary result.__dict__ as its reader sees it.
Deref(res, h) ==
    [res EXCEPT !.imports = h[res.imports], !.functions = h[res.functions],
                !.classes = h[res.classes], !.comments = h[res.comments]]

\* The lists of res hold the contents of the value v.
Store(h, res, v) ==
    [h EXCEPT ![res.imports] = v.imports, ![res.functions] = v.functions,
              ![res.classes] = v.classes, ![res.comments] = v.comments]

\* res with the six numbers of the value v.
WithNumbers(res, v) ==
    [res EXCEPT !.lines_of_code = v.lines_of_code,
                !.comment_lines = v.comment_lines,
                !.function_count = v.function_count,
                !.class_count = v.class_count,
                !.cyclomatic_complexity = v.cyclomatic_complexity,
                !.comment_ratio = v.comment_ratio]

\* The path a call takes: the python path falls to the generic one when
\* ast.parse raises.
PathOf(lang, p) ==
    IF lang = "python" THEN (IF p.ok THEN "python" ELSE "generic")
    ELSE IF lang \in {"java", "javascript"} THEN lang
    ELSE "generic"

ConcTree == <<MkNode("ClassDef", 0, 1), MkNode("FunctionDef", 1, 2), MkNode("Import", 1, 3)>>

\* The calls the threads make: the structured path, a lexical path and the
\* generic one.
ConcInputs ==
    {[code |-> <<"#", "a", "\n", "a">>, language |-> "python", parsed |-> ParseTree(ConcTree)],
     [code |-> <<"/", "*", "a", "\n", "a", "*", "/">>, language |-> "java", parsed |-> ParseFailure],
     [code |-> <<"/", "/", "a">>, language |-> "cpp", parsed |-> ParseFailure]}

Busy(t) == thr[t].pc # "idle"

Calls == Len(returned) + Cardinality({t \in Threads : Busy(t)})

\* A thread enters analyze_code(code, language), the call one of at most
\* limit calls.
Call(t, limit) ==
    /\ ~Busy(t)
    /\ Calls < limit
    /\ \E in \in ConcInputs :
          thr' = [u \in Threads |->
                    IF u = t
                    THEN [pc |-> "start", code |-> in.code, language |-> in.language,
                          parsed |-> in.parsed,
                          overlapped |-> \E v \in Threads \ {t} : Busy(v)]
                    ELSE IF Busy(u) THEN [thr[u] EXCEPT !.overlapped = TRUE]
                    ELSE thr[u]]
    /\ UNCHANGED <<heap, returned, mutations>>
    /\ UNCHANGED callVars
    /\ UNCHANGED appVars

\* result = AnalysisResult(); result.lines_of_code = len(code.splitlines())
Construct(t) ==
    /\ thr[t].pc = "start"
    /\ LET made == PostInit(heap)
           path == PathOf(thr[t].language, thr[t].parsed)
           res == [AnalysisResult EXCEPT
                     !.lines_of_code = Len(SplitLines(thr[t].code)),
                     !.imports = made.refs.imports,
                     !.functions = made.refs.functions,
                     !.classes = made.refs.classes,
                     !.comments = made.refs.comments]
       IN  /\ heap' = made.heap
           /\ thr' = [thr EXCEPT ![t] =
                        [pc |-> IF path = "python" THEN "walk" ELSE "scan",
                         code |-> thr[t].code, language |-> thr[t].language,
                         parsed |-> thr[t].parsed, overlapped |-> thr[t].overlapped,
                         path |-> path, res |-> res,
                         todo |-> IF path = "python"
                                  THEN Walk(thr[t].parsed.nodes, 0) ELSE <<>>]]
    /\ UNCHANGED <<returned, mutations>>
    /\ UNCHANGED callVars
    /\ UNCHANGED appVars

\* One pass of the loop over ast.walk(tree): the appends change the lists
\* that result refers to.
WalkNode(t) ==
    /\ thr[t].pc = "walk"
    /\ thr[t].todo # <<>>
    /\ LET v == PyNode(Deref(thr[t].res, heap), thr[t].parsed.nodes, Head(thr[t].todo))
       IN  /\ heap' = Store(heap, thr[t].res, v)
           /\ thr' = [thr EXCEPT ![t].res = WithNumbers(@, v),
                                 ![t].todo = Tail(@)]
    /\ UNCHANGED <<returned, mutations>>
    /\ UNCHANGED callVars
    /\ UNCHANGED appVars

\* The rest of the path: the pass over the lines, the pattern counts and
\* the assignments to result; result.comments = comments puts the local
\* list, a new object, in place of the one __post_init__ made.
Scan(t) ==
    /\ \/ thr[t].pc = "scan"
       \/ thr[t].pc = "walk" /\ thr[t].todo = <<>>
    /\ LET me == thr[t]
           lines == SplitLines(me.code)
           v == CASE me.path = "python" ->
                       LET st == PyScan(PyStart, lines)
                       IN  [Deref(me.res, heap) EXCEPT
                              !.comment_lines = st.comment_lines,
                              !.comment_ratio =
                                  CommentRatio(st.comment_lines, me.res.lines_of_code),
                              !.comments = st.comments]
                  [] me.path = "java" -> AnalyzeJavaBody(me.code)
                  [] me.path = "javascript" -> AnalyzeJavascript(me.code)
                  [] me.path = "generic" -> AnalyzeGeneric(me.code)
           res == IF me.path = "generic" THEN WithNumbers(me.res, v)
                  ELSE [WithNumbers(me.res, v) EXCEPT !.comments = Len(heap) + 1]
       IN  /\ heap' = IF me.path = "generic" THEN heap ELSE Append(heap, v.comments)
           /\ thr' = [thr EXCEPT ![t].res = res, ![t].pc = "return"]
    /\ UNCHANGED <<returned, mutations>>
    /\ UNCHANGED callVars
    /\ UNCHANGED appVars

\* return result.__dict__
Return(t) ==
    /\ thr[t].pc = "return"
    /\ returned' = Append(returned,
          [code |-> thr[t].code, language |-> thr[t].language,
           parsed |-> thr[t].parsed, res |-> thr[t].res,
           value |-> Deref(thr[t].res, heap),
           overlapped |-> thr[t].overlapped, mutated |-> FALSE])
    /\ thr' = [thr EXCEPT ![t] = Idle]
    /\ UNCHANGED <<heap, mutations>>
    /\ UNCHANGED callVars
    /\ UNCHANGED appVars

\* What a caller appends to the list in field f of a result it holds.
Marker(f) ==
    CASE f \in {"imports", "comments"} -> <<"x">>
      [] f = "functions" -> [name |-> <<"x">>, line |-> 0, complexity |-> 0, args |-> 0]
      [] f = "classes" -> [name |-> <<"x">>, line |-> 0, methods |-> 0]

\* A caller changes the result it was given: it appends to each of its lists.
Mutate(k) ==
    /\ mutations < MaxMutations
    /\ k \in 1..Len(returned)
    /\ heap' = [r \in 1..Len(heap) |->
                  IF \E f \in ListFields : returned[k].res[f] = r
                  THEN Append(heap[r],
                              Marker(CHOOSE f \in ListFields : returned[k].res[f] = r))
                  ELSE heap[r]]
    /\ returned' = [returned EXCEPT ![k].mutated = TRUE]
    /\ mutations' = mutations + 1
    /\ UNCHANGED thr
    /\ UNCHANGED callVars
    /\ UNCHANGED appVars

InitThreads ==
    /\ code = <<>>
    /\ language = "unknown"
    /\ parsed = ParseFailure
    /\ InitCall

\* The threads call analyze_code and keep the results as they are.
NextCalls ==
    \/ \E t \in Threads : Call(t, MaxCalls)
    \/ \E t \in Threads : Construct(t)
    \/ \E t \in Threads : WalkNode(t)
    \/ \E t \in Threads : Scan(t)
    \/ \E t \in Threads : Return(t)

SpecCalls == InitThreads /\ [][NextCalls]_vars

\* The threads call analyze_code and change the results they were given.
NextThreads ==
    \/ \E t \in Threads : Call(t, MaxSharedCalls)
    \/ \E t \in Threads : Construct(t)
    \/ \E t \in Threads : WalkNode(t)
    \/ \E t \in Threads : Scan(t)
    \/ \E t \in Threads : Return(t)
    \/ \E k \in 1..MaxSharedCalls : Mutate(k)

SpecThreads == InitThreads /\ [][NextThreads]_vars

----------------------------------------------------------------------------
(* The lexical paths over texts given line by line.                        *)

\* The most lines of such a text.
MaxLexLines == 3

\* The lines: code with a marker in it, a // comment, an indented line that
\* opens a block comment, one that closes it, block comments on one line,
\* one of them with a text that begins with a slash, a continuation line
\* with a second star in its text,
\* and a line that is a // comment outside a block and closes one inside.
LexLines ==
    {<<"a", "/", "*", "a">>,
     <<"/", "/", "a">>,
     <<" ", "/", "*", "a">>,
     <<"a", "*", "/">>,
     <<"/", "*", "a", "*", "/">>,
     <<"/", "*", "/", "a", "*", "/">>,
     <<"*", "a", "*", "a">>,
     <<"/", "/", "a", "*", "/">>}

RECURSIVE Unlines(_)
\* The text whose lines are ls, with a newline between two lines.
Unlines(ls) ==
    IF ls = <<>> THEN <<>>
    ELSE IF Len(ls) = 1 THEN ls[1]
         ELSE ls[1] \o <<"\n">> \o Unlines(Tail(ls))

\* code is a text of at most n lines, each one of shapes.
LinesInput(shapes, n) ==
    \E k \in 1..n : \E ls \in [1..k -> shapes] : code = Unlines(ls)

InitLex ==
    /\ LinesInput(LexLines, MaxLexLines)
    /\ language \in {"java", "javascript"}
    /\ parsed = ParseFailure
    /\ InitCall

SpecLex == InitLex /\ [][Next]_vars

----------------------------------------------------------------------------
(* Every path over texts with separator lines.                             *)

\* The most lines of such a text.
MaxSepLines == 2

\* The lines: rows of the marker # at, below and above the width of a
\* separator, one of them indented; a row of the marker /; a comment with
\* text and a line of code.
SepLines ==
    {Repeat("#", SeparatorWidth),
     Repeat("#", SeparatorWidth - 1),
     Repeat("#", SeparatorWidth + 1),
     <<" ">> \o Repeat("#", SeparatorWidth),
     <<"#", "a">>,
     Repeat("/", SeparatorWidth),
     <<"a">>}

InitSep ==
    /\ LinesInput(SepLines, MaxSepLines)
    /\ language \in Languages
    /\ IF language = "python" THEN ParseInput(code, 1) ELSE parsed = ParseFailure
    /\ InitCall

SpecSep == InitSep /\ [][Next]_vars

----------------------------------------------------------------------------
(* Every path over texts whose comments differ from one another.           *)

\* The most lines of such a text.
MaxOrderLines == 3

OrderLines ==
    {<<"#", "a">>,
     <<"#", " ", "b">>,
     <<"/", "/", "c">>,
     <<"/", "/", "d">>,
     <<"/", "*", "e">>,
     <<"f", "*", "/">>,
     <<"/", "*", "g", "*", "/">>,
     <<"h">>}

\* The tree of a python text plays no part in its comments: the parser
\* fails or gives a Module without statements.
InitOrder ==
    /\ LinesInput(OrderLines, MaxOrderLines)
    /\ language \in {"python", "java", "javascript", "cpp"}
    /\ IF language = "python" THEN ParseInput(code, 0) ELSE parsed = ParseFailure
    /\ InitCall

SpecOrder == InitOrder /\ [][Next]_vars

----------------------------------------------------------------------------
(* The lexical paths over texts with declarations.                         *)

\* The most lines of such a text.
MaxDeclLines == 2

\* The lines: java methods, classes and interfaces, javascript functions,
\* arrow functions and methods, an import and a plain statement.
DeclLines ==
    {<<"p", "u", "b", "l", "i", "c", " ", "a", " ", "m", "(", ")", "{">>,
     <<"p", "r", "i", "v", "a", "t", "e", " ", "a", " ", "m", "(", ")", " ", "{">>,
     <<"c", "l", "a", "s", "s", " ", "k">>,
     <<"i", "n", "t", "e", "r", "f", "a", "c", "e", " ", "k">>,
     <<"f", "u", "n", "c", "t", "i", "o", "n", " ", "n", "(", ")", "{">>,
     <<"c", "o", "n", "s", "t", " ", "f", "=", "(", ")", "=", ">">>,
     <<"m", "(", ")", "{">>,
     <<"i", "m", "p", "o", "r", "t", " ", "a", ";">>,
     <<"a">>}

InitDecl ==
    /\ LinesInput(DeclLines, MaxDeclLines)
    /\ language \in {"java", "javascript"}
    /\ parsed = ParseFailure
    /\ InitCall

SpecDecl == InitDecl /\ [][Next]_vars

----------------------------------------------------------------------------
(* The web application (src/CodePolyglot/src/web/app.py): one AnalysisTask *)
(* registry and one CodePolyglot for all requests.  A request handler and  *)
(* a task's thread advance one statement at a time, and any other thread   *)
(* may run between two statements.  A worker's pc is the line of app.py it *)
(* executes next; 152 is the call of analyze_comments in main.py, inside   *)
(* analyze_file.                                                           *)

\* The most requests (tasks and quick analyses together) the server is sent.
MaxRequests == 2

\* The interface languages the server knows, and the one a request without
\* a language field gets.
UILanguages == {"en", "zh"}
DefaultLanguages == {"en"}

\* self.tasks[task_id] = {...}
NewTask(task_id, lang) ==
    [id |-> task_id, language |-> lang, status |-> "pending", progress |-> 0,
     result |-> None, error |-> None, end_time |-> None]

\* create_task takes the lock and the next task id.
CreateTask ==
    /\ lock = 0
    /\ task_id_counter + Len(quick) < MaxRequests
    /\ task_id_counter' = task_id_counter + 1
    /\ lock' = task_id_counter + 1
    /\ UNCHANGED <<tasks, worker, config_language, quick, response>>

\* create_task makes the thread object and puts the record into tasks; the
\* language is one of langs.
Register(langs) ==
    /\ lock # 0
    /\ lock \notin DOMAIN tasks
    /\ \E lang \in langs :
          tasks' = [i \in DOMAIN tasks \cup {lock} |->
                      IF i = lock THEN NewTask(lock, lang) ELSE tasks[i]]
    /\ UNCHANGED <<task_id_counter, lock, worker, config_language, quick, response>>

\* thread.start(); return task_id, which releases the lock.
StartThread ==
    /\ lock # 0
    /\ lock \in DOMAIN tasks
    /\ worker' = [i \in DOMAIN worker \cup {lock} |->
                    IF i = lock
                    THEN [pc |-> 66, language |-> tasks[lock].language, used |-> None]
                    ELSE worker[i]]
    /\ lock' = 0
    /\ UNCHANGED <<tasks, task_id_counter, config_language, quick, response>>

\* Where a thread is that has ended, and one inside a call that never returns.
Ended == 0
Blocked == -1

\* The thread of task k executes task[field] = value at line and goes on
\* to the line next.
Statement(k, line, field, value, next) ==
    /\ k \in DOMAIN worker
    /\ worker[k].pc = line
    /\ tasks' = [tasks EXCEPT ![k][field] = value]
    /\ worker' = [worker EXCEPT ![k].pc = next]
    /\ UNCHANGED <<task_id_counter, lock, config_language, quick, response>>

\* task = self.tasks[task_id]
LookUp(k) ==
    /\ k \in DOMAIN worker
    /\ worker[k].pc = 66
    /\ k \in DOMAIN tasks
    /\ worker' = [worker EXCEPT ![k].pc = 69]
    /\ UNCHANGED <<tasks, task_id_counter, lock, config_language, quick, response>>

\* task['status'] = 'running'
SetRunning(k) == Statement(k, 69, "status", "running", 70)

\* task['progress'] = 10, 30, 70, 100
Progress(k) ==
    \/ Statement(k, 70, "progress", 10, 73)
    \/ Statement(k, 76, "progress", 30, 77)
    \/ Statement(k, 82, "progress", 70, 85)
    \/ Statement(k, 88, "progress", 100, 89)

\* polyglot.config['language'] = language
SetLanguage(k) ==
    /\ k \in DOMAIN worker
    /\ worker[k].pc = 73
    /\ config_language' = worker[k].language
    /\ worker' = [worker EXCEPT ![k].pc = 76]
    /\ UNCHANGED <<tasks, task_id_counter, lock, quick, response>>

\* polyglot.analyze_file(path) or analyze_directory(path) up to the analysis
\* of the comments: it gets there, it raises (a file that cannot be read),
\* or it never returns (a path that blocks the read).
Analyze(k) ==
    /\ k \in DOMAIN worker
    /\ worker[k].pc = 77
    /\ \E next \in {152, 92, Blocked} : worker' = [worker EXCEPT ![k].pc = next]
    /\ UNCHANGED <<tasks, task_id_counter, lock, config_language, quick, response>>

\* analyze_comments(code_analysis['comments'], self.config['language']): the
\* language is read, and the analysis returns or raises (a language the
\* comment tables do not have, a tokenizer without its data).
AnalyzeComments(k) ==
    /\ k \in DOMAIN worker
    /\ worker[k].pc = 152
    /\ \E next \in {82, 92} :
          worker' = [worker EXCEPT ![k].used = config_language, ![k].pc = next]
    /\ UNCHANGED <<tasks, task_id_counter, lock, config_language, quick, response>>

\* task['result'] = json.loads(polyglot.generate_report(results, 'json'))
Report(k) == Statement(k, 85, "result", "report", 88)

\* task['status'] = 'completed'
Complete(k) == Statement(k, 89, "status", "completed", 96)

FailedFromZero(task) == [task EXCEPT !.status = "failed", !.progress = 0]

\* except Exception as e: task['status'] = 'failed'
Failed(task) == [task EXCEPT !.status = "failed"]

Fail(k) ==
    /\ k \in DOMAIN worker
    /\ worker[k].pc = 92
    /\ tasks' = [tasks EXCEPT ![k] = Failed(tasks[k])]
    /\ worker' = [worker EXCEPT ![k].pc = 93]
    /\ UNCHANGED <<task_id_counter, lock, config_language, quick, response>>

\* task['error'] = str(e)
SetError(k) == Statement(k, 93, "error", "error", 96)

\* finally: task['end_time'] = datetime.now(), and the thread ends.
Finally(k) == Statement(k, 96, "end_time", "now", Ended)

\* One statement of the thread of task k.
RunAnalysis(k) ==
    \/ LookUp(k)
    \/ SetRunning(k)
    \/ Progress(k)
    \/ SetLanguage(k)
    \/ Analyze(k)
    \/ AnalyzeComments(k)
    \/ Report(k)
    \/ Complete(k)
    \/ Fail(k)
    \/ SetError(k)
    \/ Finally(k)

\* The response of get_task_status for a record; only a completed task's
\* response has a result.
Response(task) ==
    LET fields == [id |-> task.id, status |-> task.status,
                   progress |-> task.progress, end_time |-> task.end_time,
                   error |-> task.error]
    IN  IF task.status = "completed"
        THEN [f \in DOMAIN fields \cup {"result"} |->
                 IF f = "result" THEN task.result ELSE fields[f]]
        ELSE fields

\* get_task_status(task_id): get_task gives the record the thread writes
\* to, and the response is what the record holds at that moment.
GetTaskStatus(task_id) ==
    /\ response' = IF task_id \in DOMAIN tasks THEN Response(tasks[task_id])
                   ELSE [error |-> "Task not found"]
    /\ UNCHANGED <<tasks, task_id_counter, lock, worker, config_language, quick>>

\* quick_analyze: polyglot.config['language'] = request.form.get('ui_language', 'en')
QuickAnalyze ==
    /\ task_id_counter + Len(quick) < MaxRequests
    /\ \E lang \in UILanguages :
          /\ config_language' = lang
          /\ quick' = Append(quick, [pc |-> 189, language |-> lang, used |-> None])
    /\ UNCHANGED <<tasks, task_id_counter, lock, worker, response>>

\* quick_analyze: results = polyglot.analyze_file(temp_path), which reads
\* the language for the analysis of the comments.
QuickAnalyzeFile(q) ==
    /\ q \in 1..Len(quick)
    /\ quick[q].pc = 189
    /\ quick' = [quick EXCEPT ![q].used = config_language, ![q].pc = Ended]
    /\ UNCHANGED <<tasks, task_id_counter, lock, worker, config_language, response>>

\* Tasks in the default language, and requests for their status.
NextTasks ==
    /\ \/ CreateTask
       \/ Register(DefaultLanguages)
       \/ StartThread
       \/ \E k \in 1..MaxRequests : RunAnalysis(k)
       \/ \E k \in 1..MaxRequests : GetTaskStatus(k)
    /\ UNCHANGED callVars
    /\ UNCHANGED heapVars

SpecTasks == InitThreads /\ [][NextTasks]_vars

\* Tasks in the default language, from their creation to the end of their
\* threads.
NextRun ==
    /\ \/ CreateTask
       \/ Register(DefaultLanguages)
       \/ StartThread
       \/ \E k \in 1..MaxRequests : RunAnalysis(k)
    /\ UNCHANGED callVars
    /\ UNCHANGED heapVars

\* A request handler that holds the lock goes on, and so does every thread
\* that has been started: the interpreter gives each runnable thread a turn.
SpecTasksFair ==
    /\ InitThreads /\ [][NextRun]_vars
    /\ WF_vars(Register(DefaultLanguages) /\ UNCHANGED callVars /\ UNCHANGED heapVars)
    /\ WF_vars(StartThread /\ UNCHANGED callVars /\ UNCHANGED heapVars)
    /\ \A k \in 1..MaxRequests :
          WF_vars(RunAnalysis(k) /\ UNCHANGED callVars /\ UNCHANGED heapVars)

\* Tasks and quick analyses in any of the interface languages.
NextShared ==
    /\ \/ CreateTask
       \/ Register(UILanguages)
       \/ StartThread
       \/ \E k \in 1..MaxRequests : RunAnalysis(k)
       \/ QuickAnalyze
       \/ \E q \in 1..MaxRequests : QuickAnalyzeFile(q)
    /\ UNCHANGED callVars
    /\ UNCHANGED heapVars

SpecShared == InitThreads /\ [][NextShared]_vars

----------------------------------------------------------------------------
(* The claims.                                                             *)

Done == pc = "done"
Structured == Done /\ ~raised /\ language = "python" /\ parsed.ok
Fallback == language \notin {"python", "java", "javascript"}

\* The number of occurrences of the character c in s.
CountChar(s, c) == Cardinality({i \in 1..Len(s) : s[i] = c})

\* The lines of s delimited by the newline character alone.
NewlineDelimitedLines(s) ==
    CountChar(s, "\n") + (IF s # <<>> /\ s[Len(s)] # "\n" THEN 1 ELSE 0)

\* C1: analyze_code is total: whatever the text and the tag, it returns a
\* record with the ten AnalysisResult fields and no exception leaves it; a
\* failure inside the python or java path ends in a returned result.
C1_Total == Done => ~raised /\ DOMAIN result = ResultFields

\* C1 witness: a python text the parser rejected, and a result all the same.
C1_Witness ==
    Done /\ language = "python" /\ ~parsed.ok /\ ~raised
    /\ DOMAIN result = ResultFields /\ result.lines_of_code > 0

\* C2: comment_ratio is comment_lines / lines_of_code when lines_of_code > 0
\* and 0 when lines_of_code = 0, so it lies in [0, 1].
C2_CommentRatio ==
    Done /\ ~raised =>
        LET num == result.comment_ratio[1]
            den == result.comment_ratio[2]
        IN  /\ den > 0
            /\ result.lines_of_code > 0 =>
                   num * result.lines_of_code = result.comment_lines * den
            /\ result.lines_of_code = 0 => num = 0
            /\ 0 <= num /\ num <= den

\* C2 witness: some but not all lines are comment lines.
C2_Witness ==
    Done /\ ~raised /\ 0 < result.comment_lines
    /\ result.comment_lines < result.lines_of_code
    /\ result.comment_ratio = <<1, 2>>

\* C3: lines_of_code is the number of newline-delimited lines of the text:
\* a final newline adds no line, empty lines count, and no character other
\* than the newline starts a new line.
C3_NewlineDelimited ==
    Done /\ ~raised => result.lines_of_code = NewlineDelimitedLines(code)

SameInput(a, b) ==
    a.code = b.code /\ a.language = b.language /\ a.parsed = b.parsed

\* C4: analyze_code is deterministic and keeps no hidden state: two calls
\* with the same text and tag, whatever calls come between them, return
\* results that are equal field by field.
C4_Deterministic ==
    \A i, j \in 1..Len(returned) :
        SameInput(returned[i], returned[j]) =>
            \A f \in ResultFields : returned[i].value[f] = returned[j].value[f]

\* C4 witness: the same python text analysed first and third, another text
\* in between, and the same functions recorded both times.
C4_Witness ==
    /\ Len(returned) = 3
    /\ SameInput(returned[1], returned[3])
    /\ ~SameInput(returned[1], returned[2])
    /\ returned[1].language = "python"
    /\ returned[1].value.functions # <<>>
    /\ returned[3].value = returned[1].value

\* The list objects a result refers to.
ListsOf(res) == {res[f] : f \in ListFields}

\* C5: concurrent calls need no synchronization: under any interleaving a
\* call returns what it returns when run alone, no list of one result is a
\* list of another, and a change to the lists of one result leaves every
\* other result as it was returned.
C5_Independent ==
    \A i \in 1..Len(returned) :
        /\ returned[i].value =
              Dispatch(returned[i].code, returned[i].language, returned[i].parsed).value
        /\ Cardinality(ListsOf(returned[i].res)) = Cardinality(ListFields)
        /\ \A j \in 1..Len(returned) :
              j # i => ListsOf(returned[i].res) \cap ListsOf(returned[j].res) = {}
        /\ ~returned[i].mutated => Deref(returned[i].res, heap) = returned[i].value

\* C5 witness: two calls that ran at the same time; the result of the first
\* was changed by its caller, the result of the second reads as returned.
C5_Witness ==
    /\ Len(returned) = 2
    /\ returned[1].overlapped /\ returned[2].overlapped
    /\ returned[1].mutated /\ ~returned[2].mutated
    /\ returned[2].value.functions # <<>>
    /\ Deref(returned[1].res, heap) # returned[1].value
    /\ Deref(returned[2].res, heap) = returned[2].value

\* C6: a tag other than python, java and javascript gives the generic
\* result: the line count, the number of lines whose stripped form starts
\* with //, #, /* or *, and every other field at its default.
C6_GenericFallback ==
    Done /\ Fallback =>
        LET lines == SplitLines(code)
            marked == {i \in 1..Len(lines) :
                        LET l == Strip(lines[i])
                        IN  \/ StartsWith(l, <<"/", "/">>)
                            \/ StartsWith(l, <<"#">>)
                            \/ StartsWith(l, <<"/", "*">>)
                            \/ StartsWith(l, <<"*">>)}
        IN  /\ ~raised
            /\ result.lines_of_code = Len(lines)
            /\ result.comment_lines = Cardinality(marked)
            /\ result.function_count = 0
            /\ result.class_count = 0
            /\ result.cyclomatic_complexity = 0
            /\ result.imports = <<>>
            /\ result.functions = <<>>
            /\ result.classes = <<>>
            /\ result.comments = <<>>

\* C6 witness: a cpp text with the line //a, which is counted but, unlike on
\* the lexical path, gives no entry of comments.
C6_Witness ==
    Done /\ language = "cpp" /\ code = <<"/", "/", "a">>
    /\ result.lines_of_code = 1 /\ result.comment_lines = 1
    /\ result.comments = <<>>

\* C7: the empty text is valid on every path: the result is zero-valued,
\* nothing fails and nothing is divided by zero.
C7_EmptyInput ==
    Done /\ code = <<>> =>
        /\ ~raised
        /\ result.lines_of_code = 0
        /\ result.comment_lines = 0
        /\ result.function_count = 0
        /\ result.class_count = 0
        /\ result.comment_ratio = Zero
        /\ result.imports = <<>>
        /\ result.functions = <<>>
        /\ result.classes = <<>>
        /\ result.comments = <<>>

\* C7 witness: the empty text analysed on the structured path.
C7_Witness ==
    Done /\ code = <<>> /\ language = "python" /\ parsed.ok /\ ~raised
    /\ result.lines_of_code = 0

\* C8: a python text that cannot be parsed gets exactly the result of
\* _analyze_generic for that text, and the caller sees no parse error.
C8_ParseFailureFallsBack ==
    Done /\ language = "python" /\ ~parsed.ok =>
        ~raised /\ result = AnalyzeGeneric(code)

\* C8 witness: an unparsable python text whose generic result counts a
\* comment line the python path would not have counted.
C8_Witness ==
    Done /\ language = "python" /\ ~parsed.ok /\ ~raised
    /\ code = <<"/", "/", "a">> /\ result.comment_lines = 1

\* The node kinds the claim C9 lists.
ClaimedBranchKinds ==
    {"If", "While", "For", "AsyncFor", "AsyncWith", "Try", "ExceptHandler",
     "Assert", "BoolOp", "comprehension"}

RECURSIVE Ancestors(_, _)
\* The nodes above node n, the Module root 0 among them.
Ancestors(nodes, n) ==
    IF n = 0 THEN {}
    ELSE {nodes[n].parent} \cup Ancestors(nodes, nodes[n].parent)

Descendants(nodes, n) == {d \in 1..Len(nodes) : n \in Ancestors(nodes, d)}

\* The descendants of n of the kinds C9 lists.
Branching(nodes, n) ==
    {d \in Descendants(nodes, n) : nodes[d].kind \in ClaimedBranchKinds}

OneIfOneFor(nodes, n) ==
    \E a, b \in Branching(nodes, n) :
        /\ nodes[a].kind = "If" /\ nodes[b].kind = "For"
        /\ Branching(nodes, n) = {a, b}

SingleIf(nodes, n) ==
    \E a \in Branching(nodes, n) :
        nodes[a].kind = "If" /\ Branching(nodes, n) = {a}

\* C9: a recorded function's complexity is 1 plus the number of its
\* descendants of the ten branching kinds; one if and one for give 3, a
\* single if/else gives 2.
C9_FunctionComplexity ==
    Structured =>
        \A k \in 1..Len(result.functions) :
            LET e == result.functions[k]
                nodes == parsed.nodes
            IN  /\ e.line \in 1..Len(nodes)
                /\ nodes[e.line].kind = "FunctionDef"
                /\ e.complexity = 1 + Cardinality(Branching(nodes, e.line))
                /\ OneIfOneFor(nodes, e.line) => e.complexity = 3
                /\ SingleIf(nodes, e.line) => e.complexity = 2

\* C9 witness: a function with one if and one for, recorded with 3.
C9_Witness ==
    /\ Structured
    /\ \E k \in 1..Len(result.functions) :
          /\ OneIfOneFor(parsed.nodes, result.functions[k].line)
          /\ result.functions[k].complexity = 3

\* C10: on the structured path cyclomatic_complexity is the maximum of the
\* complexities in functions: at least 1 when a function is recorded, 0
\* when none is; every entry of functions has complexity >= 1.
C10_RecordComplexity ==
    Structured =>
        LET cs == {result.functions[k].complexity : k \in 1..Len(result.functions)}
        IN  /\ \A c \in cs : c >= 1 /\ c <= result.cyclomatic_complexity
            /\ cs # {} => result.cyclomatic_complexity \in cs
                          /\ result.cyclomatic_complexity >= 1
            /\ cs = {} => result.cyclomatic_complexity = 0

\* C10 witness: two functions, the one recorded last the simpler one.
C10_Witness ==
    /\ Structured
    /\ Len(result.functions) = 2
    /\ result.functions[2].complexity < result.functions[1].complexity
    /\ result.cyclomatic_complexity = result.functions[1].complexity

\* C11: every result has cyclomatic_complexity >= 1, and 1 when no function
\* was detected.
C11_AtLeastOne ==
    Done /\ ~raised =>
        /\ result.cyclomatic_complexity >= 1
        /\ result.function_count = 0 => result.cyclomatic_complexity = 1

\* C11 as amended: cyclomatic_complexity is 0 when functions is empty, which
\* it is on every path but the structured one, and the largest recorded
\* complexity, at least 1, when it is not.
C11_ZeroWithoutFunctions ==
    Done /\ ~raised =>
        /\ result.cyclomatic_complexity >= 0
        /\ result.functions = <<>> => result.cyclomatic_complexity = 0
        /\ result.functions # <<>> => result.cyclomatic_complexity >= 1
        /\ ~(language = "python" /\ parsed.ok) => result.functions = <<>>

\* C11 witness: a parsed python text with a statement and no function, and
\* the record's complexity at 0.
C11_Witness ==
    Structured /\ Len(parsed.nodes) = 1 /\ result.function_count = 0
    /\ result.functions = <<>> /\ result.cyclomatic_complexity = 0

Lexical == language \in {"java", "javascript"}

\* The line opens a block comment that it does not close.
Opens(line) ==
    StartsWith(Strip(line), <<"/", "*">>) /\ ~Contains(Strip(line), <<"*", "/">>)

\* The line is a comment of its own: a // comment or a block start.
StartsComment(line) ==
    StartsWith(Strip(line), <<"/", "/">>) \/ StartsWith(Strip(line), <<"/", "*">>)

\* The text ls is one block comment of k lines, opened by its first line,
\* followed by lines that are no comments.
OneBlock(ls, k) ==
    /\ 2 <= k /\ k <= Len(ls)
    /\ Opens(ls[1])
    /\ \A i \in 2..(k - 1) : ~Contains(ls[i], <<"*", "/">>)
    /\ Contains(ls[k], <<"*", "/">>)
    /\ \A i \in (k + 1)..Len(ls) : ~StartsComment(ls[i])

\* The text fragment of line i of a block comment of k lines: what follows
\* the start marker, a line between without its continuation marker, what
\* precedes the end marker.
Fragment(ls, k, i) ==
    IF i = 1 THEN Strip(SliceFrom(Strip(ls[1]), 2))
    ELSE IF i < k THEN Strip(RemoveChar(ls[i], "*"))
    ELSE Strip(Slice(ls[k], 0, Find(ls[k], <<"*", "/">>)))

RECURSIVE FragmentsFrom(_, _, _)
\* The non-empty fragments of the lines i..k, in order.
FragmentsFrom(ls, k, i) ==
    IF i > k THEN <<>>
    ELSE (IF Fragment(ls, k, i) # <<>> THEN <<Fragment(ls, k, i)>> ELSE <<>>)
         \o FragmentsFrom(ls, k, i + 1)

\* C12: on both lexical paths a block comment of k >= 2 lines adds k to
\* comment_lines and one entry to comments, its non-empty fragments joined
\* by single spaces.
C12_BlockCommentMerged ==
    Done /\ Lexical =>
        LET ls == SplitLines(code)
        IN  \A k \in 2..Len(ls) :
                OneBlock(ls, k) /\ FragmentsFrom(ls, k, 1) # <<>> =>
                    /\ result.comment_lines = k
                    /\ result.comments = <<Join(FragmentsFrom(ls, k, 1))>>

\* The separator line: 70 times the character #.
SeparatorLine == Repeat("#", SeparatorWidth)

\* The lines ls without the separator lines.
WithoutSeparators(ls) == SelectSeq(ls, LAMBDA l : l # SeparatorLine)

\* C13: a line of 70 # is a comment line for the generic fallback; on the
\* structured path it is no comment line and gives no entry of comments:
\* the result is that of the text without its separator lines.
C13_SeparatorLine ==
    Done /\ ~raised =>
        LET ls == SplitLines(code)
            rest == WithoutSeparators(ls)
        IN  /\ Fallback \/ (language = "python" /\ ~parsed.ok) =>
                  result.comment_lines = CountGeneric(rest) + (Len(ls) - Len(rest))
            /\ Structured =>
                  /\ result.comment_lines = PyScan(PyStart, rest).comment_lines
                  /\ result.comments = PyScan(PyStart, rest).comments
                  /\ \A i \in 1..Len(result.comments) :
                        result.comments[i] # SliceFrom(SeparatorLine, 1)

\* C13 witness: a parsed python text of a separator line and a comment; only
\* the comment is counted and recorded.
C13_Witness ==
    Structured /\ code = Unlines(<<SeparatorLine, <<"#", "a">>>>)
    /\ result.lines_of_code = 2 /\ result.comment_lines = 1
    /\ result.comments = <<<<"a">>>>

\* The stripped line is a row of two or more of the character c.
RowOf(line, c) ==
    LET l == Strip(line)
    IN  Len(l) >= 2 /\ \A i \in 1..Len(l) : l[i] = c

\* The lines ls without the rows of the character c.
WithoutRows(ls, c) == SelectSeq(ls, LAMBDA l : ~RowOf(l, c))

\* C14: on every path no entry of comments comes from a separator line, a
\* row of # on the python path and of / on the lexical paths, of whatever
\* length: comments is that of the text without its separator lines.
C14_NoSeparatorEntries ==
    Done /\ ~raised =>
        LET ls == SplitLines(code)
        IN  /\ Structured =>
                  result.comments = PyScan(PyStart, WithoutRows(ls, "#")).comments
            /\ language = "java" =>
                  result.comments = JavaScan(JavaStart, WithoutRows(ls, "/")).comments
            /\ language = "javascript" =>
                  result.comments = JsScan(JsStart, WithoutRows(ls, "/")).comments

\* The entries of comments that the first m lines of ls have completed on
\* the path the call takes.
CompletedBy(ls, m) ==
    IF Structured THEN PyScan(PyStart, SubSeq(ls, 1, m)).comments
    ELSE IF language = "java" THEN JavaScan(JavaStart, SubSeq(ls, 1, m)).comments
    ELSE IF language = "javascript" THEN JsScan(JsStart, SubSeq(ls, 1, m)).comments
    ELSE <<>>

IsPrefix(p, s) == Len(p) <= Len(s) /\ SubSeq(s, 1, Len(p)) = p

\* C15: comments is in source order on every path: the entries the first m
\* lines complete are the first entries of comments, for every m, so an
\* entry never stands before one that an earlier line completed.
C15_SourceOrder ==
    Done /\ ~raised =>
        LET ls == SplitLines(code)
        IN  /\ \A m \in 0..Len(ls) : IsPrefix(CompletedBy(ls, m), result.comments)
            /\ result.comments = CompletedBy(ls, Len(ls))

\* C15 witness: a // comment and then a block comment of two lines on the
\* java path, recorded in that order.
C15_Witness ==
    Done /\ language = "java"
    /\ code = Unlines(<<<<"/", "/", "c">>, <<"/", "*", "e">>, <<"f", "*", "/">>>>)
    /\ result.comments = <<<<"c">>, <<"e", " ", "f">>>>

\* C16: on the lexical paths cyclomatic_complexity stays 0 and imports,
\* functions and classes stay empty, whatever the text and whatever the
\* counts of functions and classes.
C16_LexicalFrame ==
    Done /\ Lexical =>
        /\ ~raised
        /\ result.cyclomatic_complexity = 0
        /\ result.imports = <<>>
        /\ result.functions = <<>>
        /\ result.classes = <<>>

\* C16 witness: a javascript text with an import, in which a function and a
\* class are counted, and nothing recorded.
C16_Witness ==
    Done /\ language = "javascript"
    /\ result.function_count > 0 /\ result.class_count > 0
    /\ Contains(code, <<"i", "m", "p", "o", "r", "t">>)
    /\ result.cyclomatic_complexity = 0 /\ result.imports = <<>>
    /\ result.functions = <<>> /\ result.classes = <<>>

\* The function definitions of Python: def and async def.
FunctionDefinitions == {"FunctionDef", "AsyncFunctionDef"}

\* The nodes of the tree that are of one of the kinds.
NodesOfKind(nodes, kinds) == {n \in 1..Len(nodes) : nodes[n].kind \in kinds}

\* C17: on the structured path every function definition, async ones too,
\* is counted and recorded once, every class definition likewise, and a
\* class's method count is the number of function definitions directly in
\* its body.
C17_EveryDefinitionCounted ==
    Structured =>
        LET nodes == parsed.nodes
            defs == NodesOfKind(nodes, FunctionDefinitions)
            classes == NodesOfKind(nodes, {"ClassDef"})
        IN  /\ result.function_count = Cardinality(defs)
            /\ Len(result.functions) = Cardinality(defs)
            /\ {result.functions[k].line : k \in 1..Len(result.functions)} = defs
            /\ result.class_count = Cardinality(classes)
            /\ Len(result.classes) = Cardinality(classes)
            /\ \A k \in 1..Len(result.classes) :
                  LET c == result.classes[k].line
                  IN  /\ c \in classes
                      /\ result.classes[k].methods =
                            Cardinality({n \in defs : nodes[n].parent = c})

\* The strings the import statement node contributes according to C18.
ClaimedImports(node) ==
    IF node.kind = "Import" THEN node.names
    ELSE [i \in 1..Len(node.names) |->
            (IF node.module = PyNone THEN <<>> ELSE node.module)
            \o <<".">> \o node.names[i]]

RECURSIVE ImportsAlong(_, _)
\* The contributions of the import statements among the nodes of walk, in
\* the order of walk.
ImportsAlong(nodes, walk) ==
    IF walk = <<>> THEN <<>>
    ELSE (IF KindOf(nodes, Head(walk)) \in {"Import", "ImportFrom"}
          THEN ClaimedImports(nodes[Head(walk)]) ELSE <<>>)
         \o ImportsAlong(nodes, Tail(walk))

\* C18: imports holds, in the order in which the walk meets the import
\* statements, the names of 'import a, b' one by one, 'm.n' for 'from m
\* import n' and '.n' for a relative import without a module; no statement
\* is skipped or recorded twice.
C18_Imports ==
    Structured =>
        result.imports = ImportsAlong(parsed.nodes, Walk(parsed.nodes, 0))

\* C18 witness: import a, b; from m import n; from . import n.
C18_Witness ==
    /\ Structured
    /\ Len(parsed.nodes) = 3
    /\ parsed.nodes[1].kind = "Import"
    /\ parsed.nodes[2].kind = "ImportFrom" /\ parsed.nodes[2].module = <<"m">>
    /\ parsed.nodes[3].kind = "ImportFrom" /\ parsed.nodes[3].module = PyNone
    /\ result.imports = <<<<"a">>, <<"b">>, <<"m", ".", "n">>, <<".", "n">>>>

\* The scanner of the call's lexical path after the first m lines of ls.
LexState(ls, m) ==
    IF language = "java" THEN JavaScan(JavaStart, SubSeq(ls, 1, m))
    ELSE JsScan(JsStart, SubSeq(ls, 1, m))

\* The lines after line i that contain the end marker.
ClosersAfter(ls, i) == {j \in (i + 1)..Len(ls) : Contains(ls[j], <<"*", "/">>)}

\* The first of them, and the line after the last line when there is none.
CloserAfter(ls, i) ==
    IF ClosersAfter(ls, i) = {} THEN Len(ls) + 1
    ELSE CHOOSE j \in ClosersAfter(ls, i) : \A o \in ClosersAfter(ls, i) : j <= o

\* Line m was read as a // comment: its text is the entry it added.
ReadAsLineComment(ls, m) ==
    /\ StartsWith(Strip(ls[m]), <<"/", "/">>)
    /\ Strip(SliceFrom(Strip(ls[m]), 2)) # <<>>
    /\ LexState(ls, m).comments =
          Append(LexState(ls, m - 1).comments, Strip(SliceFrom(Strip(ls[m]), 2)))

\* C19: after a line that starts with /* and has no */, each line up to and
\* including the first one with */ counts once toward comment_lines and is
\* read neither as a // comment nor as a block start; the scanner stays in
\* the block until that line and leaves it there, so an unterminated block
\* makes every remaining line a comment line.
C19_InsideBlock ==
    Done /\ Lexical =>
        LET ls == SplitLines(code)
        IN  /\ result.comment_lines = LexState(ls, Len(ls)).comment_lines
            /\ \A i \in 1..Len(ls) :
                  Opens(ls[i]) =>
                      LET j == CloserAfter(ls, i)
                      IN  /\ LexState(ls, i).in_block_comment
                          /\ \A m \in (i + 1)..Len(ls) :
                                m <= j =>
                                   /\ LexState(ls, m).comment_lines =
                                         LexState(ls, m - 1).comment_lines + 1
                                   /\ LexState(ls, m).in_block_comment = (m < j)
                                   /\ ~ReadAsLineComment(ls, m)
                                   /\ m < j => LexState(ls, m).comments =
                                                  LexState(ls, m - 1).comments
                          /\ j > Len(ls) =>
                                result.comment_lines =
                                    LexState(ls, i).comment_lines + (Len(ls) - i)

\* C19 witness: a block comment that is never closed, followed by a line
\* that looks like a // comment and one that looks like a block start.
C19_Witness ==
    Done /\ language = "javascript"
    /\ code = Unlines(<<<<" ", "/", "*", "a">>, <<"/", "/", "a">>, <<" ", "/", "*", "a">>>>)
    /\ result.comment_lines = 3 /\ result.comments = <<<<"a">>>>

\* The stripped line starts with the start marker and contains the end
\* marker.
SingleLineBlock(line) ==
    StartsWith(Strip(line), <<"/", "*">>) /\ Contains(Strip(line), <<"*", "/">>)

\* The text between the start marker and the end marker that follows it,
\* stripped; empty when no end marker follows the start marker.
Interior(line) ==
    LET rest == SliceFrom(Strip(line), 2)
    IN  IF Contains(rest, <<"*", "/">>)
        THEN Strip(Slice(rest, 0, Find(rest, <<"*", "/">>)))
        ELSE <<>>

\* C20: a line read outside a block comment whose stripped form starts with
\* /* and contains */ counts once toward comment_lines, appends the text
\* between the two markers to comments if that is not empty, and leaves the
\* scanner outside a block comment.
C20_SingleLineBlock ==
    Done /\ Lexical =>
        LET ls == SplitLines(code)
        IN  /\ result.comment_lines = LexState(ls, Len(ls)).comment_lines
            /\ result.comments = LexState(ls, Len(ls)).comments
            /\ \A m \in 1..Len(ls) :
                  ~LexState(ls, m - 1).in_block_comment /\ SingleLineBlock(ls[m]) =>
                      /\ LexState(ls, m).comment_lines =
                            LexState(ls, m - 1).comment_lines + 1
                      /\ LexState(ls, m).comments =
                            (IF Interior(ls[m]) # <<>>
                             THEN Append(LexState(ls, m - 1).comments, Interior(ls[m]))
                             ELSE LexState(ls, m - 1).comments)
                      /\ ~LexState(ls, m).in_block_comment

\* The line without its leading continuation marker * and the whitespace
\* around what is left; later stars stay.
WithoutContinuation(line) ==
    LET l == Strip(line)
    IN  IF l # <<>> /\ Head(l) = "*" THEN Strip(Tail(l)) ELSE l

\* C21: a line read inside a block comment and without */ adds to the
\* pending fragments its text less the leading * and the whitespace around
\* it, nothing if that is empty, and on both lexical paths the fragment is
\* part of the comment emitted by the line that closes the block.
C21_ContinuationLine ==
    Done /\ Lexical =>
        LET ls == SplitLines(code)
        IN  /\ result.comments = LexState(ls, Len(ls)).comments
            /\ \A m \in 1..Len(ls) :
                  LexState(ls, m - 1).in_block_comment
                  /\ ~Contains(ls[m], <<"*", "/">>) =>
                      LET frag == WithoutContinuation(ls[m])
                          j == CloserAfter(ls, m)
                      IN  /\ language = "java" =>
                                LexState(ls, m).block_comment_content =
                                    (IF frag # <<>>
                                     THEN Append(LexState(ls, m - 1).block_comment_content, frag)
                                     ELSE LexState(ls, m - 1).block_comment_content)
                          /\ j <= Len(ls) /\ frag # <<>> =>
                                LET after == LexState(ls, j).comments
                                IN  /\ Len(after) = Len(LexState(ls, j - 1).comments) + 1
                                    /\ Contains(after[Len(after)], frag)

\* C22: the complexity walk of a function goes through the functions nested
\* in it: each branching node of a nested function counts for the enclosing
\* function too, which is therefore never less complex than a function
\* nested in it.
C22_NestedFunctions ==
    Structured =>
        \A a, b \in 1..Len(result.functions) :
            LET outer == result.functions[a]
                inner == result.functions[b]
                nodes == parsed.nodes
            IN  inner.line \in Descendants(nodes, outer.line) =>
                    /\ outer.complexity >= inner.complexity
                    /\ outer.complexity - inner.complexity =
                          Cardinality(Branching(nodes, outer.line)
                                      \ Branching(nodes, inner.line))

\* C22 witness: a function whose only branch is the if of a function defined
\* inside it; both have complexity 2.
C22_Witness ==
    /\ Structured
    /\ Len(parsed.nodes) = 3
    /\ parsed.nodes[1].kind = "FunctionDef" /\ parsed.nodes[1].parent = 0
    /\ parsed.nodes[2].kind = "FunctionDef" /\ parsed.nodes[2].parent = 1
    /\ parsed.nodes[3].kind = "If" /\ parsed.nodes[3].parent = 2
    /\ Len(result.functions) = 2
    /\ result.functions[1].complexity = 2
    /\ result.functions[2].complexity = 2

\* The keywords that declare a class in the language of the call.
ClassKeywords ==
    IF language = "java" THEN {Kw_class, Kw_interface, Kw_enum} ELSE {Kw_class}

\* The line declares a class: one of the keywords, a space and a name.
DeclaresClass(line) ==
    \E kw \in ClassKeywords :
        /\ StartsWith(Strip(line), kw \o <<" ">>)
        /\ Len(Strip(line)) > Len(kw) + 1

\* C23: on the lexical paths class_count is the number of class, interface
\* and enum declarations of the text, each counted once; a text with
\* function declarations and no such declaration has class_count = 0.
C23_ClassCount ==
    Done /\ Lexical =>
        LET ls == SplitLines(code)
        IN  result.class_count =
                Cardinality({i \in 1..Len(ls) : DeclaresClass(ls[i])})

\* The scanner of the call's path after the first m lines of ls; the
\* generic path keeps no scanner.
PathState(ls, m) ==
    IF Structured THEN PyScan(PyStart, SubSeq(ls, 1, m))
    ELSE IF language = "java" THEN JavaScan(JavaStart, SubSeq(ls, 1, m))
    ELSE JsScan(JsStart, SubSeq(ls, 1, m))

\* A non-empty string that neither begins nor ends with whitespace.
CleanText(s) ==
    /\ s # <<>>
    /\ s[1] \notin Whitespace
    /\ s[Len(s)] \notin Whitespace

Terminal == {"completed", "failed"}
StatusMoves ==
    {<<"pending", "running">>, <<"running", "completed">>, <<"running", "failed">>}

\* The thread of task k is inside an analysis call that never returns.
NeverReturns(k) == k \in DOMAIN worker /\ worker[k].pc = Blocked

\* C25: a task whose thread has started is in tasks; a step changes a
\* task's status only from pending to running and from running to completed
\* or failed, so a terminal status stays, and never lowers its progress;
\* and every task in tasks gets to completed or failed unless its analysis
\* call never returns.
C25_TaskLifecycle ==
    /\ [](DOMAIN worker \subseteq DOMAIN tasks)
    /\ [][\A k \in DOMAIN tasks :
            /\ tasks'[k].status # tasks[k].status =>
                  <<tasks[k].status, tasks'[k].status>> \in StatusMoves
            /\ tasks'[k].progress >= tasks[k].progress]_vars
    /\ \A k \in 1..MaxRequests :
          (k \in DOMAIN tasks)
             ~> (NeverReturns(k) \/ (k \in DOMAIN tasks /\ tasks[k].status \in Terminal))

\* C25 witness: two tasks whose threads have ended, one completed at
\* progress 100 and one failed at the progress of the analysis call.
C25_Witness ==
    \E j, k \in DOMAIN worker :
        /\ worker[j].pc = Ended /\ worker[k].pc = Ended
        /\ tasks[j].status = "completed" /\ tasks[j].progress = 100
        /\ tasks[k].status = "failed" /\ tasks[k].progress = 30

\* get_task_status has answered with the fields of a task.
Answered == "status" \in DOMAIN response

\* C26: whatever a request for a task's status reads, a completed task has
\* a result, progress 100 and an end time, a failed task has an error and
\* an end time, and a pending or running task has no end time.
C26_ConsistentRecord ==
    Answered =>
        /\ response.status = "completed" =>
              /\ response.result # None
              /\ response.progress = 100
              /\ response.end_time # None
        /\ response.status = "failed" =>
              /\ response.error # None
              /\ response.end_time # None
        /\ response.status \in {"pending", "running"} => response.end_time = None

\* C27: the analysis of the comments in the thread of a task reads the
\* language the task was created with.
C27_OwnLanguage ==
    \A k \in DOMAIN worker :
        worker[k].used # None => worker[k].used = tasks[k].language

====
